---- MODULE Spec2Model ----
(***************************************************************************)
(* Mathematics-Olympiad-Problems-Bot: the polling deployment (main.py) and *)
(* the webhook deployment (api/index.py).                                  *)
(*                                                                         *)
(* State: the environment variables and the process they configure, the    *)
(* identity file users.txt, the directory problems/rmo of the catalog      *)
(* (changed out-of-band by the operator), and one record per in-flight     *)
(* handler invocation with the handler's position and locals.              *)
(*                                                                         *)
(* Handlers are coroutines.  In main.py they run on the single event loop  *)
(* of run_polling, so the code between two awaits of a handler is never    *)
(* interleaved with another handler; only the file system (the catalog)    *)
(* can change under it.  In api/index.py every webhook request runs its    *)
(* own loop (asyncio.run), so handlers interleave freely.                  *)
(***************************************************************************)
EXTENDS Integers, Sequences, FiniteSets, TLC

\* ------------------------------------------------------------ bounds
\* Requester identities are 1..NumUsers.
NumUsers == 2
\* Handler invocations that may be in flight at once.
MaxInFlight == 2

Users == 1..NumUsers
Slots == 1..MaxInFlight

\* ------------------------------------------------------------ configuration
\* An environment variable: unset, or set to a text.
Unset == [set |-> FALSE, value |-> <<>>]
SetTo(value) == [set |-> TRUE, value |-> value]

\* The values the operator may give TELEGRAM_TOKEN and ADMIN_ID.
TokenValues == {Unset, SetTo(<<"t">>)}
AdminValues == {Unset, SetTo(<<"1">>), SetTo(<<"x">>)}

DecimalDigits == {"0", "1", "2", "3", "4", "5", "6", "7", "8", "9"}
DigitValue(c) ==
  CASE c = "0" -> 0 [] c = "1" -> 1 [] c = "2" -> 2 [] c = "3" -> 3 [] c = "4" -> 4
    [] c = "5" -> 5 [] c = "6" -> 6 [] c = "7" -> 7 [] c = "8" -> 8 [] c = "9" -> 9

\* int(str) returns for a non-empty run of decimal digits and raises
\* ValueError for the other texts used here.
IsDecimal(str) == str # <<>> /\ \A i \in 1..Len(str) : str[i] \in DecimalDigits
RECURSIVE int(_)
int(str) ==
  IF str = <<>> THEN 0
  ELSE 10 * int(SubSeq(str, 1, Len(str) - 1)) + DigitValue(str[Len(str)])

\* ------------------------------------------------------------ text
\* Text is a sequence of one-character strings.
S_start == <<"s", "t", "a", "r", "t">>
S_users == <<"u", "s", "e", "r", "s">>
S_rmo   == <<"r", "m", "o">>
S_inmo  == <<"i", "n", "m", "o">>

\* problem_commands, the commands registered for send_problem.
problem_commands ==
  { S_rmo, S_inmo, <<"a", "m", "c", "8">>, <<"a", "m", "c", "1", "0">>,
    <<"a", "m", "c", "1", "2">>, <<"a", "i", "m", "e">>,
    <<"u", "s", "a", "m", "o">>, <<"i", "m", "o">> }

LowerCase == {"a", "c", "e", "i", "m", "n", "o", "r", "s", "t", "u", "x"}
UpperCase == {"A", "B", "C", "E", "I", "M", "N", "O", "R", "S", "T", "U", "X"}
Digits    == {"0", "1", "2", "8"}

\* str.lower() and str.upper() on one character.
lowerChar(c) ==
  CASE c = "A" -> "a" [] c = "B" -> "b" [] c = "C" -> "c" [] c = "E" -> "e"
    [] c = "I" -> "i" [] c = "M" -> "m" [] c = "N" -> "n" [] c = "O" -> "o"
    [] c = "R" -> "r" [] c = "S" -> "s" [] c = "T" -> "t" [] c = "U" -> "u"
    [] c = "X" -> "x" [] OTHER -> c

upperChar(c) ==
  CASE c = "a" -> "A" [] c = "b" -> "B" [] c = "c" -> "C" [] c = "e" -> "E"
    [] c = "i" -> "I" [] c = "m" -> "M" [] c = "n" -> "N" [] c = "o" -> "O"
    [] c = "r" -> "R" [] c = "s" -> "S" [] c = "t" -> "T" [] c = "u" -> "U"
    [] c = "x" -> "X" [] OTHER -> c

lower(str) == [i \in 1..Len(str) |-> lowerChar(str[i])]
upper(str) == [i \in 1..Len(str) |-> upperChar(str[i])]

\* Index of the first character of str that lies in set, Len(str)+1 if none.
FirstIn(str, set) ==
  IF \E i \in 1..Len(str) : str[i] \in set
  THEN CHOOSE i \in 1..Len(str) :
         /\ str[i] \in set
         /\ \A j \in 1..(i - 1) : str[j] \notin set
  ELSE Len(str) + 1

\* str.split(sep)[0]: the part before the first occurrence of sep.
SplitHead(str, sep) == SubSeq(str, 1, FirstIn(str, {sep}) - 1)

\* str.lstrip('/'): every leading '/' is removed.
LStripSlash(str) ==
  LET keep == {i \in 1..Len(str) : str[i] # "/"}
  IN  IF keep = {} THEN <<>>
      ELSE SubSeq(str, CHOOSE i \in keep : \A j \in keep : i <= j, Len(str))

\* exam_type as send_problem derives it from update.message.text.
ExamType(text) ==
  LET command_text     == SplitHead(text, " ")
      command_no_slash == LStripSlash(command_text)
  IN  SplitHead(command_no_slash, "@")

\* ------------------------------------------------------------ inbound updates
\* The message texts delivered by the transport.
T_start   == <<"/">> \o S_start
T_users   == <<"/">> \o S_users
T_rmo     == <<"/">> \o S_rmo
T_RMO     == <<"/", "R", "M", "O">>
T_rmo_at  == T_rmo \o <<"@", "B", " ", "x">>
T_rmo_nl  == T_rmo \o <<"\n", "x">>

Texts == {T_start, T_users, T_rmo, T_RMO, T_rmo_at, T_rmo_nl}

WordChars == LowerCase \cup UpperCase \cup Digits \cup {"_"}

\* The command a CommandHandler matches: the leading bot_command entity of the
\* text without its '/', cut at '@', compared in lower case.
CommandOf(text) ==
  LET rest == Tail(text)
      n    == FirstIn(rest, {c \in {rest[i] : i \in 1..Len(rest)} : c \notin WordChars})
  IN  lower(SubSeq(rest, 1, n - 1))

\* application.add_handler(CommandHandler(...)): which handler a text reaches.
HandlerOf(text) ==
  IF text = <<>> \/ Head(text) # "/" THEN "none"
  ELSE LET cmd == CommandOf(text)
       IN  CASE cmd = S_start -> "start"
             [] cmd \in problem_commands -> "send_problem"
             [] cmd = S_users -> "user_count"
             [] OTHER -> "none"

\* An update as a handler sees it: msg = "none" (update.message is None, an
\* edited message or a channel post), "notext" (a message whose text is None)
\* or "text".
Updates(handler) ==
  [msg : {"none", "notext"}, text : {<<>>}, uid : Users]
    \cup [msg : {"text"}, text : {t \in Texts : HandlerOf(t) = handler}, uid : Users]

\* ------------------------------------------------------------ state
VARIABLES
  variant,    \* "main" (main.py, polling) or "api" (api/index.py, webhook)
  env,        \* the environment variables TELEGRAM_TOKEN and ADMIN_ID
  proc,       \* the process: its phase, its global ADMIN_ID, what it has logged
  users,      \* users.txt: [exists, lines], one identity per line
  catalog,    \* problems/rmo: [kind, entries]
  req,        \* per slot: the handler invocation, its position and locals
  recorded    \* history: the identities whose log_user call returned normally

vars == <<variant, env, proc, users, catalog, req, recorded>>

\* The module global ADMIN_ID.
ADMIN_ID == proc.ADMIN_ID

\* The module has been imported, the handlers are registered and updates are
\* dispatched (run_polling in main.py, the Flask route in api/index.py).
Serving == proc.phase = "serving"

\* The directory names the catalog may hold under PROBLEMS_BASE_DIR.
DirNames == {S_rmo}
F_p1     == <<"p", "1">>
F_p2     == <<"p", "2">>
F_keep   == <<".", "k">>
Entries  == {F_p1, F_p2, F_keep}

NoDir == [kind |-> "absent", entries |-> {}]

\* What os.path sees at os.path.join(PROBLEMS_BASE_DIR, exam_type).
PathState(exam_type) == IF exam_type \in DirNames THEN catalog ELSE NoDir

\* os.path.isdir and os.path.exists on such a path.
isdir(st)  == st.kind = "dir"
exists(st) == st.kind # "absent"

NoReply == [kind |-> "none", name |-> <<>>, file |-> <<>>, n |-> 0]
Reply(kind, name, file, n) == [kind |-> kind, name |-> name, file |-> file, n |-> n]

IdleReq ==
  [handler |-> "none", msg |-> "none", text |-> <<>>, uid |-> 0, pc |-> "idle",
   logged |-> "no", exam_type |-> <<>>, question_files |-> {}, file |-> <<>>,
   pending |-> NoReply, replies |-> <<>>]

NewReq(handler, u) ==
  [IdleReq EXCEPT !.handler = handler, !.msg = u.msg, !.text = u.text, !.uid = u.uid]

\* The handler has returned ("done") or an exception has left it ("raised").
Finished(s) == req[s].pc \in {"done", "raised"}

\* The dispatcher takes back a finished invocation before anything else runs.
Quiet == \A t \in Slots : ~Finished(t)

\* A new invocation takes the lowest idle slot.
FreeSlot(s) ==
  /\ Serving /\ Quiet
  /\ req[s].pc = "idle"
  /\ \A t \in Slots : t < s => req[t].pc # "idle"

\* main.py: a handler runs on the event loop only while no other handler is
\* between two of its awaits.  api/index.py: no such exclusion.
LoopFree(s) ==
  /\ Quiet
  /\ variant = "main" => \A t \in Slots \ {s} : req[t].pc \notin {"listdir", "open"}

Init ==
  /\ variant \in {"main", "api"}
  /\ env \in [TELEGRAM_TOKEN : TokenValues, ADMIN_ID : AdminValues]
  /\ proc = [phase |-> "import", ADMIN_ID |-> 0, log |-> "none"]
  /\ users \in {[exists |-> FALSE, lines |-> <<>>], [exists |-> TRUE, lines |-> <<>>]}
  /\ catalog \in {NoDir, [kind |-> "dir", entries |-> {F_p1}]}
  /\ req = [s \in Slots |-> IdleReq]
  /\ recorded = {}

\* ------------------------------------------------------------ start-up
Exit(log) == [phase |-> "exited", ADMIN_ID |-> 0, log |-> log]
Serve(admin_id, log) == [phase |-> "serving", ADMIN_ID |-> admin_id, log |-> log]

\* main.py, module level and main(): os.environ[...] raises KeyError for an
\* unset variable, which is logged as an error before exit(); int() raises a
\* ValueError that nothing catches; otherwise the handlers are registered and
\* run_polling starts.
main_startup ==
  /\ variant = "main" /\ proc.phase = "import"
  /\ proc' = IF ~env.TELEGRAM_TOKEN.set \/ ~env.ADMIN_ID.set THEN Exit("error")
             ELSE IF ~IsDecimal(env.ADMIN_ID.value) THEN Exit("traceback")
             ELSE Serve(int(env.ADMIN_ID.value), "none")
  /\ UNCHANGED <<variant, env, users, catalog, req, recorded>>

\* api/index.py, module level: os.getenv, a critical log line for an unset
\* variable, ADMIN_ID = 0 for an unset or non-numeric ADMIN_ID, then
\* Application.builder().token(TELEGRAM_TOKEN).build(), which raises for a
\* token that is None, and the registration of the handlers.
api_startup ==
  /\ variant = "api" /\ proc.phase = "import"
  /\ LET ADMIN_ID_RAW == env.ADMIN_ID
         log == IF ~env.TELEGRAM_TOKEN.set \/ ~ADMIN_ID_RAW.set
                THEN "critical" ELSE "none"
         admin_id == IF ADMIN_ID_RAW.set /\ IsDecimal(ADMIN_ID_RAW.value)
                     THEN int(ADMIN_ID_RAW.value) ELSE 0
     IN  proc' = IF ~env.TELEGRAM_TOKEN.set THEN Exit(log)
                 ELSE Serve(admin_id, log)
  /\ UNCHANGED <<variant, env, users, catalog, req, recorded>>

\* ------------------------------------------------------------ identity store
\* The outcomes of one I/O call on users.txt: it works, or the open for
\* reading, or the open for writing, raises an OSError that is not
\* FileNotFoundError (a read-only file system, a permission error).
StoreFaults == {"none", "read", "write"}

Raised(file) == [users |-> file, outcome |-> "raised"]

\* log_user without the membership test: every call appends.
log_user_always_append(file, user_id, fault) ==
  IF fault = "read" THEN Raised(file)
  ELSE IF fault = "write" THEN Raised(file)
  ELSE IF file.exists
  THEN [users |-> [file EXCEPT !.lines = Append(@, user_id)], outcome |-> "appended"]
  ELSE [users |-> [exists |-> TRUE, lines |-> <<user_id>>], outcome |-> "created"]

\* log_user whose FileNotFoundError branch creates users.txt and writes nothing.
log_user_empty_create(file, user_id, fault) ==
  IF fault = "read" THEN Raised(file)
  ELSE IF file.exists
  THEN IF user_id \notin {file.lines[i] : i \in 1..Len(file.lines)}
       THEN IF fault = "write" THEN Raised(file)
            ELSE [users   |-> [file EXCEPT !.lines = Append(@, user_id)],
                  outcome |-> "appended"]
       ELSE [users |-> file, outcome |-> "known"]
  ELSE IF fault = "write" THEN Raised(file)
       ELSE [users |-> [exists |-> TRUE, lines |-> <<>>], outcome |-> "created"]

\* log_user that opens users.txt with "w" where the code opens it with "a".
log_user_truncate(file, user_id, fault) ==
  IF fault = "read" THEN Raised(file)
  ELSE IF fault = "write" /\ ~(file.exists /\ user_id \in {file.lines[i] : i \in 1..Len(file.lines)})
  THEN Raised(file)
  ELSE IF file.exists
  THEN IF user_id \notin {file.lines[i] : i \in 1..Len(file.lines)}
       THEN [users |-> [file EXCEPT !.lines = <<user_id>>], outcome |-> "appended"]
       ELSE [users |-> file, outcome |-> "known"]
  ELSE [users |-> [exists |-> TRUE, lines |-> <<user_id>>], outcome |-> "created"]

\* log_user(user_id) on users.txt = file: the file afterwards and how the call
\* ended ("known", "appended", "created", or "raised" when an exception leaves it).
\* Each line is written as f"{user_id}\n" and read back with int(line.strip()).
log_user(file, user_id, fault) ==
  IF fault = "read" THEN Raised(file)
  ELSE IF file.exists
  THEN LET known_users == {file.lines[i] : i \in 1..Len(file.lines)}
       IN  IF user_id \notin known_users
           THEN IF fault = "write" THEN Raised(file)
                ELSE [users   |-> [file EXCEPT !.lines = Append(@, user_id)],
                      outcome |-> "appended"]
           ELSE [users |-> file, outcome |-> "known"]
  ELSE IF fault = "write" THEN Raised(file)
       ELSE [users   |-> [exists |-> TRUE, lines |-> <<user_id>>],
             outcome |-> "created"]

\* ------------------------------------------------------------ handlers
Await(r, reply) == [r EXCEPT !.pending = reply, !.pc = "await"]

\* The replies send_problem awaits inside its try block.
InTry(reply) == reply.kind \in {"missing", "empty", "photo"}

\* The except clause of send_problem: the generic text is sent; the listing is
\* not used again.
Except(r) ==
  [r EXCEPT !.question_files = {},
            !.pending = Reply("generic", <<>>, <<>>, 0), !.pc = "await"]
Raise(r) == [r EXCEPT !.pc = "raised"]
Return(r) == [r EXCEPT !.pc = "done"]

\* start that sends the welcome text without calling log_user first.
main_start_no_log(s) ==
  /\ variant = "main" /\ FreeSlot(s) /\ LoopFree(s)
  /\ \E u \in Updates("start") :
       req' = [req EXCEPT ![s] =
         IF u.msg = "none" THEN Raise(NewReq("start", u))
         ELSE Await(NewReq("start", u), Reply("welcome", <<>>, <<>>, 0))]
  /\ UNCHANGED <<variant, env, proc, users, catalog, recorded>>

\* main.py start: log_user(update.message.from_user.id), then the welcome text.
main_start(s) ==
  /\ variant = "main" /\ FreeSlot(s) /\ LoopFree(s)
  /\ \E u \in Updates("start"), fault \in StoreFaults :
       LET r0 == NewReq("start", u)
           lg == log_user(users, u.uid, fault)
       IN  IF u.msg = "none"
           THEN /\ req' = [req EXCEPT ![s] = Raise(r0)]
                /\ UNCHANGED <<users, recorded>>
           ELSE IF lg.outcome = "raised"
           THEN /\ req' = [req EXCEPT ![s] = Raise([r0 EXCEPT !.logged = "failed"])]
                /\ UNCHANGED <<users, recorded>>
           ELSE /\ users' = lg.users
                /\ recorded' = recorded \cup {u.uid}
                /\ req' = [req EXCEPT ![s] =
                     Await([r0 EXCEPT !.logged = lg.outcome],
                           Reply("welcome", <<>>, <<>>, 0))]
  /\ UNCHANGED <<variant, env, proc, catalog>>

\* main.py send_problem up to the os.path.isdir test: log_user, the derivation
\* of exam_type, and the reply for a folder that does not exist.
main_send_problem(s) ==
  /\ variant = "main" /\ FreeSlot(s) /\ LoopFree(s)
  /\ \E u \in Updates("send_problem"), fault \in StoreFaults :
       LET r0 == NewReq("send_problem", u)
           lg == log_user(users, u.uid, fault)
           r1 == [r0 EXCEPT !.logged = lg.outcome, !.exam_type = ExamType(u.text)]
       IN  IF u.msg = "none"
           THEN /\ req' = [req EXCEPT ![s] = Raise(r0)]
                /\ UNCHANGED <<users, recorded>>
           ELSE IF lg.outcome = "raised"
           THEN /\ req' = [req EXCEPT ![s] = Raise([r0 EXCEPT !.logged = "failed"])]
                /\ UNCHANGED <<users, recorded>>
           ELSE /\ users' = lg.users
                /\ recorded' = recorded \cup {u.uid}
                /\ req' = [req EXCEPT ![s] =
                     IF u.msg = "notext"
                     THEN Raise([r0 EXCEPT !.logged = lg.outcome])
                     ELSE IF ~isdir(PathState(r1.exam_type))
                     THEN Await(r1, Reply("missing", upper(r1.exam_type), <<>>, 0))
                     ELSE [r1 EXCEPT !.pc = "listdir"]]
  /\ UNCHANGED <<variant, env, proc, catalog>>

\* user_count without the ADMIN_ID test: every requester gets the count.
main_user_count_no_gate(s) ==
  /\ variant = "main" /\ FreeSlot(s) /\ LoopFree(s)
  /\ \E u \in Updates("user_count"), fault \in {"none", "read"} :
       LET r0 == NewReq("user_count", u)
       IN  req' = [req EXCEPT ![s] =
             IF u.msg = "none" THEN Raise(r0)
             ELSE IF fault = "read" THEN Raise(r0)
             ELSE IF ~users.exists
             THEN Await(r0, Reply("nousers", <<>>, <<>>, 0))
             ELSE Await(r0, Reply("count", <<>>, <<>>, Len(users.lines)))]
  /\ UNCHANGED <<variant, env, proc, users, catalog, recorded>>

\* user_count that opens users.txt so that a missing file is created.
main_user_count_creates(s) ==
  /\ variant = "main" /\ FreeSlot(s) /\ LoopFree(s)
  /\ \E u \in Updates("user_count"), fault \in {"none", "read"} :
       LET r0 == NewReq("user_count", u)
       IN  /\ req' = [req EXCEPT ![s] =
                IF u.msg = "none" THEN Raise(r0)
                ELSE IF u.uid # ADMIN_ID THEN Return(r0)
                ELSE IF fault = "read" THEN Raise(r0)
                ELSE Await(r0, Reply("count", <<>>, <<>>, Len(users.lines)))]
           /\ users' = IF u.msg # "none" /\ u.uid = ADMIN_ID /\ fault = "none"
                       THEN [users EXCEPT !.exists = TRUE] ELSE users
  /\ UNCHANGED <<variant, env, proc, catalog, recorded>>

\* main.py user_count: the admin gets the number of lines of users.txt.
main_user_count(s) ==
  /\ variant = "main" /\ FreeSlot(s) /\ LoopFree(s)
  /\ \E u \in Updates("user_count"), fault \in {"none", "read"} :
       LET r0 == NewReq("user_count", u)
       IN  req' = [req EXCEPT ![s] =
             IF u.msg = "none" THEN Raise(r0)
             ELSE IF u.uid # ADMIN_ID THEN Return(r0)
             ELSE IF fault = "read" THEN Raise(r0)
             ELSE IF ~users.exists
             THEN Await(r0, Reply("nousers", <<>>, <<>>, 0))
             ELSE Await(r0, Reply("count", <<>>, <<>>, Len(users.lines)))]
  /\ UNCHANGED <<variant, env, proc, users, catalog, recorded>>

\* api/index.py start: the welcome text, no log_user.
api_start(s) ==
  /\ variant = "api" /\ FreeSlot(s) /\ LoopFree(s)
  /\ \E u \in Updates("start") :
       LET r0 == NewReq("start", u)
       IN  req' = [req EXCEPT ![s] =
             IF u.msg = "none" THEN Raise(r0)
             ELSE Await(r0, Reply("welcome", <<>>, <<>>, 0))]
  /\ UNCHANGED <<variant, env, proc, users, catalog, recorded>>

\* api/index.py send_problem up to the os.path.exists test.
api_send_problem(s) ==
  /\ variant = "api" /\ FreeSlot(s) /\ LoopFree(s)
  /\ \E u \in Updates("send_problem") :
       LET r0 == NewReq("send_problem", u)
           r1 == [r0 EXCEPT !.exam_type = ExamType(u.text)]
       IN  req' = [req EXCEPT ![s] =
             IF u.msg # "text" THEN Return(r0)
             ELSE IF ~exists(PathState(r1.exam_type))
             THEN Await(r1, Reply("missing", r1.exam_type, <<>>, 0))
             ELSE [r1 EXCEPT !.pc = "listdir"]]
  /\ UNCHANGED <<variant, env, proc, users, catalog, recorded>>

\* api/index.py user_count: a fixed text for the admin.
api_user_count(s) ==
  /\ variant = "api" /\ FreeSlot(s) /\ LoopFree(s)
  /\ \E u \in Updates("user_count") :
       LET r0 == NewReq("user_count", u)
       IN  req' = [req EXCEPT ![s] =
             IF u.msg = "none" THEN Raise(r0)
             ELSE IF u.uid = ADMIN_ID
             THEN Await(r0, Reply("disabled", <<>>, <<>>, 0))
             ELSE Return(r0)]
  /\ UNCHANGED <<variant, env, proc, users, catalog, recorded>>

\* f.startswith('.')
Hidden(f) == Len(f) > 0 /\ f[1] = "."

\* send_problem whose text for an empty folder leaves the folder's name out.
Enumerate_empty_unnamed(s) ==
  /\ req[s].pc = "listdir" /\ LoopFree(s)
  /\ LET r  == req[s]
         st == PathState(r.exam_type)
         question_files == {f \in st.entries : ~Hidden(f)}
     IN  IF st.kind # "dir"
         THEN req' = [req EXCEPT ![s] = Except(r)]
         ELSE IF question_files = {}
         THEN req' = [req EXCEPT ![s] = Await(r, Reply("empty", <<>>, <<>>, 0))]
         ELSE \E random_question_file \in question_files :
                req' = [req EXCEPT ![s] =
                  [r EXCEPT !.question_files = question_files,
                            !.file = random_question_file, !.pc = "open"]]
  /\ UNCHANGED <<variant, env, proc, users, catalog, recorded>>

\* send_problem that keeps the hidden names of the listing.
Enumerate_unfiltered(s) ==
  /\ req[s].pc = "listdir" /\ LoopFree(s)
  /\ LET r  == req[s]
         st == PathState(r.exam_type)
         question_files == st.entries
     IN  IF st.kind # "dir"
         THEN req' = [req EXCEPT ![s] = Except(r)]
         ELSE IF question_files = {}
         THEN req' = [req EXCEPT ![s] =
                Await(r, Reply("empty", upper(r.exam_type), <<>>, 0))]
         ELSE \E random_question_file \in question_files :
                req' = [req EXCEPT ![s] =
                  [r EXCEPT !.question_files = question_files,
                            !.file = random_question_file, !.pc = "open"]]
  /\ UNCHANGED <<variant, env, proc, users, catalog, recorded>>

\* send_problem that tests the raw listing for emptiness and filters the
\* hidden names afterwards: random.choice is reached with what is left.
Enumerate_test_before_filter(s) ==
  /\ req[s].pc = "listdir" /\ LoopFree(s)
  /\ LET r  == req[s]
         st == PathState(r.exam_type)
         question_files == {f \in st.entries : ~Hidden(f)}
     IN  IF st.kind # "dir"
         THEN req' = [req EXCEPT ![s] = Except(r)]
         ELSE IF st.entries = {}
         THEN req' = [req EXCEPT ![s] =
                Await(r, Reply("empty", upper(r.exam_type), <<>>, 0))]
         ELSE \E random_question_file \in
                   (IF question_files = {} THEN {<<>>} ELSE question_files) :
                req' = [req EXCEPT ![s] =
                  [r EXCEPT !.question_files = question_files,
                            !.file = random_question_file, !.pc = "open"]]
  /\ UNCHANGED <<variant, env, proc, users, catalog, recorded>>

\* send_problem, both variants: os.listdir with the hidden names dropped, the
\* reply for an empty folder, random.choice.
Enumerate(s) ==
  /\ req[s].pc = "listdir" /\ LoopFree(s)
  /\ LET r  == req[s]
         st == PathState(r.exam_type)
         question_files == {f \in st.entries : ~Hidden(f)}
     IN  IF st.kind # "dir"
         THEN req' = [req EXCEPT ![s] = Except(r)]
         ELSE IF question_files = {}
         THEN req' = [req EXCEPT ![s] =
                Await(r, Reply("empty", upper(r.exam_type), <<>>, 0))]
         ELSE \E random_question_file \in question_files :
                req' = [req EXCEPT ![s] =
                  [r EXCEPT !.question_files = question_files,
                            !.file = random_question_file, !.pc = "open"]]
  /\ UNCHANGED <<variant, env, proc, users, catalog, recorded>>

\* The photo reply captioned with exam_type as typed, not exam_type.upper().
OpenArtifact_raw_caption(s) ==
  /\ req[s].pc = "open" /\ LoopFree(s)
  /\ \E readable \in BOOLEAN :
       req' = [req EXCEPT ![s] =
         IF PathState(req[s].exam_type).kind = "dir"
            /\ req[s].file \in PathState(req[s].exam_type).entries /\ readable
         THEN Await(req[s], Reply("photo", req[s].exam_type, req[s].file, 0))
         ELSE Except(req[s])]
  /\ UNCHANGED <<variant, env, proc, users, catalog, recorded>>

\* send_problem, both variants: open(file_path, 'rb') and the photo reply.
OpenArtifact(s) ==
  /\ req[s].pc = "open" /\ LoopFree(s)
  /\ \E readable \in BOOLEAN :
       LET r  == req[s]
           st == PathState(r.exam_type)
       IN  req' = [req EXCEPT ![s] =
             IF st.kind = "dir" /\ r.file \in st.entries /\ readable
             THEN Await(r, Reply("photo", upper(r.exam_type), r.file, 0))
             ELSE Except(r)]
  /\ UNCHANGED <<variant, env, proc, users, catalog, recorded>>

\* send_problem with the generic text in a finally clause: it follows a
\* delivered reply of the try block as well.
Transport_finally(s) ==
  /\ req[s].pc = "await" /\ LoopFree(s)
  /\ \E ok \in BOOLEAN :
       LET r == req[s]
       IN  req' = [req EXCEPT ![s] =
             IF ok
             THEN IF InTry(r.pending)
                  THEN Except([r EXCEPT !.replies = Append(@, r.pending)])
                  ELSE Return([r EXCEPT !.replies = Append(@, r.pending),
                                        !.pending = NoReply])
             ELSE IF InTry(r.pending) THEN Except(r)
             ELSE Raise([r EXCEPT !.pending = NoReply])]
  /\ UNCHANGED <<variant, env, proc, users, catalog, recorded>>

\* An awaited reply_text or reply_photo completes: the transport delivers the
\* reply, or raises.  Inside send_problem's try the exception reaches the
\* except clause, which sends the generic text; anywhere else it leaves the
\* handler.
Transport(s) ==
  /\ req[s].pc = "await" /\ LoopFree(s)
  /\ \E ok \in BOOLEAN :
       LET r == req[s]
       IN  req' = [req EXCEPT ![s] =
             IF ok
             THEN Return([r EXCEPT !.replies = Append(@, r.pending), !.pending = NoReply])
             ELSE IF InTry(r.pending) THEN Except(r)
             ELSE Raise([r EXCEPT !.pending = NoReply])]
  /\ UNCHANGED <<variant, env, proc, users, catalog, recorded>>

\* The handler is over: the dispatcher drops the invocation.
Finish(s) ==
  /\ Finished(s)
  /\ req' = [req EXCEPT ![s] = IdleReq]
  /\ UNCHANGED <<variant, env, proc, users, catalog, recorded>>

\* ------------------------------------------------------------ the operator's edits
\* problems/rmo is created, filled, emptied and removed while the bot runs.
CatalogEdit ==
  /\ Quiet
  /\ \/ /\ catalog.kind = "absent"
        /\ catalog' \in {[kind |-> "dir", entries |-> {}], [kind |-> "file", entries |-> {}]}
     \/ /\ catalog.kind # "absent"
        /\ catalog' = NoDir
     \/ /\ catalog.kind = "dir"
        /\ \E f \in Entries :
             catalog' = [catalog EXCEPT !.entries =
                           IF f \in @ THEN @ \ {f} ELSE @ \cup {f}]
  /\ UNCHANGED <<variant, env, proc, users, req, recorded>>

Next ==
  \/ main_startup
  \/ api_startup
  \/ \E s \in Slots : main_start(s)
  \/ \E s \in Slots : main_send_problem(s)
  \/ \E s \in Slots : main_user_count(s)
  \/ \E s \in Slots : api_start(s)
  \/ \E s \in Slots : api_send_problem(s)
  \/ \E s \in Slots : api_user_count(s)
  \/ \E s \in Slots : Enumerate(s)
  \/ \E s \in Slots : OpenArtifact(s)
  \/ \E s \in Slots : Transport(s)
  \/ \E s \in Slots : Finish(s)
  \/ CatalogEdit

Spec == Init /\ [][Next]_vars

\* ------------------------------------------------------------ properties
Range(seq) == {seq[i] : i \in 1..Len(seq)}
Count(x, seq) == Cardinality({i \in 1..Len(seq) : seq[i] = x})
Logged(r) == r.logged \in {"known", "appended", "created"}
Started(s) == req[s].pc # "idle"
\* send_problem has derived exam_type from the text.
Tokenised(r) ==
  r.handler = "send_problem" /\ r.msg = "text" /\ r.pc # "idle" /\ r.logged # "failed"
\* A reply of the invocation is being sent or was delivered.
Replying(r) == r.pending # NoReply \/ r.replies # <<>>

\* C1: however the in-flight handlers of main.py interleave, users.txt holds
\* exactly the identities whose log_user call returned, each of them once.
C1_ConcurrentRecording ==
  /\ Range(users.lines) = recorded
  /\ Len(users.lines) = Cardinality(recorded)
  /\ recorded # {} => users.exists

\* Two handlers are in flight at once for two identities, both recorded.
C1_Witness ==
  \E s, t \in Slots :
    /\ req[s].pc = "await" /\ req[t].pc = "await"
    /\ Logged(req[s]) /\ Logged(req[t])
    /\ req[s].uid # req[t].uid
    /\ Len(users.lines) = 2

\* C2: a log_user(u) call that finds u in users.txt leaves the file as it is,
\* and after any log_user(u) call that returns u is on exactly one line.
C2_Idempotent ==
  [][\A s \in Slots :
       (req[s].pc = "idle" /\ Logged(req'[s])) =>
          /\ req'[s].uid \in Range(users.lines) => users' = users
          /\ Count(req'[s].uid, users'.lines) = 1]_vars

\* Two invocations for the same identity have both called log_user.
C2_Witness ==
  \E s, t \in Slots :
    /\ s # t /\ req[s].uid = req[t].uid
    /\ req[s].logged \in {"appended", "created"} /\ req[t].logged = "known"
    /\ Count(req[s].uid, users.lines) = 1

\* C3: no step removes an identity from users.txt, nor the file itself; the
\* lines already written stay where they are.
C3_Monotonic ==
  [][/\ users.exists => users'.exists
     /\ Len(users.lines) <= Len(users'.lines)
     /\ SubSeq(users'.lines, 1, Len(users.lines)) = users.lines]_vars

\* users.txt was absent, was created by one call and has grown by another.
C3_Witness ==
  \E s, t \in Slots :
    /\ req[s].logged = "created" /\ req[t].logged = "appended"
    /\ users.lines = <<req[s].uid, req[t].uid>>

\* C4: in main.py a content command from an identity that is not in users.txt
\* appends that identity and nothing else to the file (all earlier lines
\* kept, one line more); when the category is Ready (the folder was listed
\* with visible files, the chosen file was opened and the transport delivered)
\* the one reply is that file as a photo captioned with the upper-cased
\* category name, and the identity is in the file.
C4_FirstTimeInsertion ==
  /\ [](\A s \in Slots :
          (variant = "main" /\ req[s].handler = "send_problem" /\ Logged(req[s])) =>
             /\ req[s].uid \in Range(users.lines)
             /\ (req[s].pc = "done" /\ req[s].question_files # {}) =>
                   /\ req[s].exam_type = S_rmo
                   /\ req[s].file \in req[s].question_files
                   /\ req[s].replies = <<Reply("photo", <<"R", "M", "O">>, req[s].file, 0)>>)
  /\ [][\A s \in Slots :
          (/\ req[s].pc = "idle" /\ req'[s].handler = "send_problem"
           /\ Logged(req'[s]) /\ req'[s].uid \notin Range(users.lines)) =>
             /\ users'.exists
             /\ users'.lines = Append(users.lines, req'[s].uid)
             /\ req'[s].logged \in {"appended", "created"}]_vars

\* "/rmo" from a new identity has ended with the photo delivered.
C4_Witness ==
  \E s \in Slots :
    /\ variant = "main" /\ req[s].text = T_rmo /\ req[s].pc = "done"
    /\ req[s].logged \in {"appended", "created"}
    /\ Len(req[s].replies) = 1 /\ req[s].replies[1].kind = "photo"
    /\ req[s].uid \in Range(users.lines)

\* C5 as stated: in both variants, whenever start or a content command is
\* sending or has sent a reply, the requester's identity is in users.txt.
C5_RecordBeforeAct ==
  \A s \in Slots :
    (req[s].handler \in {"start", "send_problem"} /\ req[s].msg = "text" /\ Replying(req[s]))
      => req[s].uid \in Range(users.lines)

\* C5 amended: the same of main.py only; api/index.py never calls log_user.
C5_RecordBeforeActMain ==
  \A s \in Slots :
    (/\ variant = "main" /\ req[s].handler \in {"start", "send_problem"}
     /\ req[s].msg = "text" /\ Replying(req[s]))
      => (Logged(req[s]) /\ req[s].uid \in Range(users.lines))

\* main.py start is sending its welcome text, the identity recorded.
C5_Witness ==
  \E s \in Slots :
    /\ variant = "main" /\ req[s].handler = "start" /\ req[s].msg = "text"
    /\ req[s].pending.kind = "welcome"
    /\ req[s].uid \in Range(users.lines)

\* C6: the token send_problem resolves the category with is lower case.
C6_CaseFolded ==
  \A s \in Slots :
    Tokenised(req[s]) => req[s].exam_type = lower(req[s].exam_type)

\* C7: the token send_problem derives is the reference token of the text: the
\* part before the first whitespace character, less one leading marker, cut
\* at the first '@'.
Whitespace == {" ", "\n", "\t", "\r"}
RefToken(text) ==
  LET first == SubSeq(text, 1, FirstIn(text, Whitespace) - 1)
      bare  == IF first # <<>> /\ Head(first) = "/" THEN Tail(first) ELSE first
  IN  SubSeq(bare, 1, FirstIn(bare, {"@"}) - 1)

C7_TokenDerivation ==
  \A s \in Slots :
    Tokenised(req[s]) => req[s].exam_type = RefToken(req[s].text)

\* C8: no exception leaves a handler; stated of the invocations for a
\* well-formed command, where only a downstream step can fail.
C8_NothingEscapes ==
  \A s \in Slots : req[s].msg = "text" => req[s].pc # "raised"

\* C9: a log_user call that fails does not stop the handler: start and
\* send_problem go on to their reply.
C9_StoreFailureDegradesTracking ==
  \A s \in Slots :
    (req[s].msg = "text" /\ req[s].logged = "failed") => req[s].pc # "raised"

\* C10: send_problem, given an update with no message or no text, sends no
\* reply and writes nothing to users.txt.
C10_MalformedInert ==
  \A s \in Slots :
    (req[s].handler = "send_problem" /\ req[s].msg \in {"none", "notext"})
      => (~Replying(req[s]) /\ req[s].logged \notin {"appended", "created"})

\* The names of a folder that send_problem keeps.
Visible(entries) == {f \in entries : ~Hidden(f)}
\* No photo is being sent or was delivered by the invocation.
NoArtifact(r) ==
  /\ r.pending.kind # "photo"
  /\ \A i \in 1..Len(r.replies) : r.replies[i].kind # "photo"
\* The text names the category the request resolved to.
NamesCategory(reply, exam_type) == reply.name \in {exam_type, upper(exam_type)}

C12_CurrentVisibleSet ==
  /\ [](\A s \in Slots :
          ~NoArtifact(req[s]) =>
             /\ req[s].file \in req[s].question_files
             /\ ~Hidden(req[s].file)
             /\ req[s].pending.kind = "photo" => req[s].pending.file = req[s].file
             /\ \A i \in 1..Len(req[s].replies) :
                  req[s].replies[i].kind = "photo" => req[s].replies[i].file = req[s].file)
  /\ [][\A s \in Slots :
          /\ req[s].pc = "idle" => req'[s].question_files = {}
          /\ (req[s].pc = "listdir" /\ req'[s].pc = "open") =>
                /\ req'[s].question_files = Visible(PathState(req[s].exam_type).entries)
                /\ req'[s].file \in req'[s].question_files
          /\ (req[s].pc = "open" /\ req'[s].pending.kind = "photo") =>
                /\ req'[s].file = req[s].file
                /\ req[s].file \in Visible(PathState(req[s].exam_type).entries)]_vars

\* One invocation listed the folder before a file was added, a later one
\* after: the later one sends the added file.
C12_Witness ==
  \E s, t \in Slots :
    /\ req[s].question_files = {F_p1}
    /\ req[t].question_files = {F_p1, F_p2}
    /\ req[t].pending.kind = "photo" /\ req[t].pending.file = F_p2

\* The replies of the invocation, the one being sent included.
Issued(r) == IF r.pending = NoReply THEN r.replies ELSE Append(r.replies, r.pending)
\* A users command from an identity other than ADMIN_ID: the invocation ends
\* with nothing sent and nothing computed, whatever users.txt holds.
NonAdminInert(r) ==
  (r.handler = "user_count" /\ r.uid # ADMIN_ID) =>
     r = [NewReq("user_count", [msg |-> r.msg, text |-> r.text, uid |-> r.uid])
            EXCEPT !.pc = IF r.msg = "none" THEN "raised" ELSE "done"]

\* C13 as stated: in both variants the reply to a users command from
\* ADMIN_ID is a count text, and a users command from anybody else gets no
\* reply, the invocation being the same for every content of users.txt.
C13_AdminGating ==
  \A s \in Slots :
    /\ NonAdminInert(req[s])
    /\ (req[s].handler = "user_count" /\ req[s].msg = "text" /\ req[s].uid = ADMIN_ID) =>
          \A i \in 1..Len(Issued(req[s])) :
            Issued(req[s])[i].kind \in {"count", "nousers"}

\* C13 amended: the same, but the admin's reply is a count text in main.py
\* only; in api/index.py it is the fixed text that counting is disabled.
C13_AdminGatingPerVariant ==
  \A s \in Slots :
    /\ NonAdminInert(req[s])
    /\ (req[s].handler = "user_count" /\ req[s].uid = ADMIN_ID) =>
          /\ Len(Issued(req[s])) <= 1
          /\ \A i \in 1..Len(Issued(req[s])) :
               Issued(req[s])[i].kind \in
                 (IF variant = "main" THEN {"count", "nousers"} ELSE {"disabled"})
          /\ (req[s].msg # "none" /\ req[s].pc # "raised") => Issued(req[s]) # <<>>

\* main.py: a users command from a non-admin has ended with users.txt
\* holding two identities.
C13_Witness ==
  \E s \in Slots :
    /\ variant = "main" /\ req[s].handler = "user_count" /\ req[s].msg = "text"
    /\ req[s].uid # ADMIN_ID /\ req[s].pc = "done"
    /\ Len(users.lines) = 2

\* C14: the number main.py user_count puts in its reply is, when it reads
\* users.txt, the number of distinct identities in the file, which is the
\* number of identities recorded by the start and content commands so far;
\* the text for an absent file is sent only when nothing was recorded; a
\* number on its way is never more than what was recorded.
C14_CountCorrect ==
  /\ [](\A s \in Slots : \A i \in 1..Len(Issued(req[s])) :
          Issued(req[s])[i].kind = "count" =>
             Issued(req[s])[i].n <= Cardinality(recorded))
  /\ [][\A s \in Slots :
          (req[s].pc = "idle" /\ req'[s].handler = "user_count") =>
             /\ req'[s].pending.kind = "count" =>
                  /\ req'[s].pending.n = Cardinality(Range(users.lines))
                  /\ req'[s].pending.n = Cardinality(recorded)
             /\ req'[s].pending.kind = "nousers" => recorded = {}]_vars

\* The admin is being told 2 after two identities were recorded.
C14_Witness ==
  \E s \in Slots :
    /\ req[s].handler = "user_count" /\ req[s].uid = ADMIN_ID
    /\ req[s].pending.kind = "count" /\ req[s].pending.n = 2
    /\ Cardinality(recorded) = 2

\* Both variables are set and ADMIN_ID is a number.
ConfigComplete ==
  /\ env.TELEGRAM_TOKEN.set
  /\ env.ADMIN_ID.set /\ IsDecimal(env.ADMIN_ID.value)

\* C15: in both variants the handlers are registered and serving only under
\* a complete configuration (TELEGRAM_TOKEN set, ADMIN_ID set to a number).
C15_FailFast == Serving => ConfigComplete

\* C16: users.txt changes only in a step in which main.py start or
\* send_problem calls log_user, and then to what log_user makes of it; a
\* user_count step leaves it as it is; no step of a handler or of the
\* start-up changes problems/, which only the operator edits.
C16_Frame ==
  [][/\ users' # users =>
          \E s \in Slots :
            /\ variant = "main" /\ req[s].pc = "idle"
            /\ req'[s].handler \in {"start", "send_problem"}
            /\ req'[s].logged \in {"appended", "created"}
            /\ users' = log_user(users, req'[s].uid, "none").users
     /\ \A s \in Slots :
          (req[s].pc = "idle" /\ req'[s].handler = "user_count") => users' = users
     /\ catalog' # catalog => (req' = req /\ proc' = proc)]_vars

\* The admin's user_count has read users.txt with two identities in it and
\* left them there.
C16_Witness ==
  \E s \in Slots :
    /\ variant = "main" /\ req[s].handler = "user_count"
    /\ req[s].pending.kind = "count" /\ req[s].pending.n = 2
    /\ Len(users.lines) = 2 /\ catalog.kind = "dir"

\* send_problem had chosen a file and the photo was not delivered: open() or
\* reply_photo raised.
ArtifactFailed(r) ==
  /\ r.handler = "send_problem" /\ r.file # <<>>
  /\ r.pc \in {"await", "done", "raised"}
  /\ NoArtifact(r)

\* C17: when the file send_problem has chosen cannot be opened or sent, the
\* handler's one reply is the generic text, no photo is sent, and no
\* exception leaves the handler.
C17_ArtifactFailure ==
  \A s \in Slots :
    ArtifactFailed(req[s]) =>
      /\ req[s].pc # "raised"
      /\ Len(Issued(req[s])) = 1 /\ Issued(req[s])[1].kind = "generic"

\* C18: whenever send_problem has passed random.choice, the list it drew
\* from had at least one name, none of them hidden, and the file drawn is one
\* of the list.
C18_ChoiceNonEmpty ==
  \A s \in Slots :
    req[s].pc = "open" =>
      /\ req[s].question_files # {}
      /\ \A f \in req[s].question_files : f \in Entries /\ ~Hidden(f)
      /\ req[s].file \in req[s].question_files

\* random.choice has drawn from a folder that also holds a hidden file.
C18_Witness ==
  \E s \in Slots :
    /\ req[s].pc = "open" /\ req[s].question_files = {F_p1}
    /\ catalog.kind = "dir" /\ catalog.entries = {F_p1, F_keep}

\* The reply send_problem of variant v ends with for a text, when the folder
\* stays as it is and every call on it and on the transport works: the
\* existence test of the variant, then os.listdir (which raises on a plain
\* file), the emptiness test and the photo.
OutcomeClass(v, text) ==
  LET st == PathState(ExamType(text))
  IN  IF (v = "main" /\ ~isdir(st)) \/ (v = "api" /\ ~exists(st)) THEN "missing"
      ELSE IF st.kind # "dir" THEN "generic"
      ELSE IF Visible(st.entries) = {} THEN "empty"
      ELSE "photo"

\* C19: for every command text and every state of problems/, send_problem of
\* main.py and send_problem of api/index.py end in the same class of reply.
C19_VariantEquivalence ==
  \A text \in Texts :
    HandlerOf(text) = "send_problem" =>
      OutcomeClass("main", text) = OutcomeClass("api", text)

\* C20: an invocation of send_problem has at most one reply delivered (a
\* reply counts as delivered when its awaited send has returned), and the
\* generic text is on its way or delivered only when no other reply of the
\* invocation was delivered.
C20_AtMostOneReply ==
  \A s \in Slots :
    req[s].handler = "send_problem" =>
      /\ Len(req[s].replies) <= 1
      /\ req[s].pending.kind = "generic" => req[s].replies = <<>>
      /\ req[s].pending # NoReply => req[s].replies = <<>>
      /\ \A i \in 1..Len(req[s].replies) :
           req[s].replies[i].kind \in {"missing", "empty", "photo", "generic"}

\* The photo could not be sent and the generic text was delivered as the one
\* reply of the invocation.
C20_Witness ==
  \E s \in Slots :
    /\ req[s].handler = "send_problem" /\ req[s].pc = "done"
    /\ req[s].file # <<>>
    /\ req[s].replies = <<Reply("generic", <<>>, <<>>, 0)>>

====
